---------------------------- MODULE Spec2Model ----------------------------
(***************************************************************************)
(* Model of the batch scripts of vlm_for_iqa:                              *)
(*   - misc/populate_test_directory.py : the multi-seed stratified sampler *)
(*   - no_reference/niqe.py            : the NIQE scorer                   *)
(*   - other_taxa.py, qwen_vl_iqa.py, qwen200.py : Yes/No classification   *)
(*   - qwen_iqa.py                     : loads the model, nothing else     *)
(* Every script is one sequential process.  File names, category names and *)
(* model responses are sequences of one-character strings, so that the     *)
(* suffix test, the regular-expression match, sorted() and the substring   *)
(* test are computed character by character, as the Python code does.      *)
(***************************************************************************)
EXTENDS Integers, Sequences, FiniteSets, TLC

(***************************************************************************)
(* Bounds of the model.                                                    *)
(***************************************************************************)
\* largest number of entries in the listed directory
MaxFiles == 2
\* samples_per_type ranges over 0..MaxK
MaxK == 2

(***************************************************************************)
(* Characters and strings.                                                 *)
(***************************************************************************)
\* the characters used, in code-point order (what sorted() compares)
Chars ==
  << " ", ",", ".", "0", "1", "2", "3", "7", "9",
     "A", "B", "C", "E", "G", "J", "N", "P", "S", "Y", "_",
     "a", "b", "c", "d", "e", "g", "h", "i", "j", "l", "m", "n", "o",
     "p", "r", "s", "t", "x", "y" >>

\* the position of each character in Chars
CharIndex ==
  [c \in {Chars[i] : i \in 1..Len(Chars)} |-> CHOOSE i \in 1..Len(Chars) : Chars[i] = c]

\* ord(c), up to an order-preserving renumbering
Ord(c) == CharIndex[c]

Digits == {"0", "1", "2", "3", "7", "9"}

\* str.lower() on one character
LowerChar(c) ==
  CASE c = "A" -> "a" [] c = "B" -> "b" [] c = "C" -> "c" [] c = "E" -> "e"
    [] c = "G" -> "g" [] c = "J" -> "j" [] c = "N" -> "n" [] c = "P" -> "p"
    [] c = "S" -> "s" [] c = "Y" -> "y" [] OTHER -> c

\* str.lower()
Lower(s) == [i \in 1..Len(s) |-> LowerChar(s[i])]

\* str.endswith(suffix)
EndsWith(s, suffix) ==
  /\ Len(suffix) <= Len(s)
  /\ \A i \in 1..Len(suffix) : s[Len(s) - Len(suffix) + i] = suffix[i]

\* str.endswith(tuple of suffixes)
EndsWithAny(s, suffixes) == \E x \in suffixes : EndsWith(s, x)

\* `sub in s`
Contains(s, sub) ==
  \E off \in 0..(Len(s) - Len(sub)) :
    \A i \in 1..Len(sub) : s[off + i] = sub[i]

\* s < t in Python's string order (code points, a proper prefix is smaller)
StrLess(s, t) ==
  \E i \in 1..(Len(t)) :
    /\ i <= Len(s) + 1
    /\ \A j \in 1..(i - 1) : s[j] = t[j]
    /\ (i = Len(s) + 1 \/ Ord(s[i]) < Ord(t[i]))

RECURSIVE Insert(_, _)
Insert(x, sorted) ==
  IF sorted = << >> THEN << x >>
  ELSE IF StrLess(Head(sorted), x) THEN << Head(sorted) >> \o Insert(x, Tail(sorted))
  ELSE << x >> \o sorted

\* sorted(files)
RECURSIVE Sorted(_)
Sorted(files) ==
  IF files = << >> THEN << >> ELSE Insert(Head(files), Sorted(Tail(files)))

Range(s) == {s[i] : i \in 1..Len(s)}

RECURSIVE SumSeq(_)
SumSeq(s) == IF s = << >> THEN 0 ELSE Head(s) + SumSeq(Tail(s))

\* all orderings of a finite set, as sequences
RECURSIVE Perms(_)
Perms(S) ==
  IF S = {} THEN {<< >>}
  ELSE UNION {{<< x >> \o p : p \in Perms(S \ {x})} : x \in S}


(***************************************************************************)
(* Inputs: the directory entries, the categories, the seeds, the replies.  *)
(***************************************************************************)
\* names a listed directory may hold
FileNames ==
  { << "A", "_", "1", ".", "j", "p", "g" >>,
    << "A", "_", "1", "0", ".", "p", "N", "g" >>,
    << "A", "_", "2", ".", "J", "P", "E", "G" >>,
    << "B", "_", "7", ".", "J", "p", "g" >>,
    << "B", "_", "x", ".", "j", "p", "e", "g" >>,
    << "A", "_", "3", ".", "t", "x", "t" >>,
    << "B", "_", "9", ".", "p", "n", "g" >> }

\* the entries of FileNames that are sub-directories, not regular files
Directories == { << "B", "_", "9", ".", "p", "n", "g" >> }

\* os.path.isfile(os.path.join(source_folder, filename))
IsFile(name) == name \notin Directories

\* the flower_types lists tried; "." is the regular expression's wildcard,
\* so its pattern overlaps the patterns of "A" and "B"
FlowerTypeLists ==
  { << << "A" >>, << "B" >> >>,
    << << "." >>, << "A" >> >>,
    << << "A" >>, << "." >>, << "A" >> >> }

\* the values tried for the per-process key of str hashes (PYTHONHASHSEED
\* unset: CPython draws a fresh key at every start of the interpreter)
HashSalts == {0, 1}

\* the seeds lists tried (SEEDS of __main__ is [42, 123, 456])
SeedLists == { << 42, 123 >>, << 42, 42 >> }

(***************************************************************************)
(* Which names a script takes for images.                                  *)
(***************************************************************************)
\* populate_test_directory.py: valid_extensions
valid_extensions ==
  { << ".", "j", "p", "g" >>, << ".", "j", "p", "e", "g" >>, << ".", "p", "n", "g" >>,
    << ".", "J", "P", "G" >>, << ".", "J", "P", "E", "G" >>, << ".", "P", "N", "G" >> }

\* any(filename.lower().endswith(ext.lower()) for ext in valid_extensions)
SamplerEligible(filename) ==
  \E ext \in valid_extensions : EndsWith(Lower(filename), Lower(ext))

\* niqe.py: img.lower().endswith(('.jpg','.jpeg','.png'))
NiqeEligible(img) ==
  EndsWithAny(Lower(img),
    { << ".", "j", "p", "g" >>, << ".", "j", "p", "e", "g" >>, << ".", "p", "n", "g" >> })

\* other_taxa.py, qwen_vl_iqa.py, qwen200.py:
\* img.endswith(('.jpg', '.png', '.JPG', '.PNG', '.jpeg'))
ClassifierEligible(img) ==
  EndsWithAny(img,
    { << ".", "j", "p", "g" >>, << ".", "p", "n", "g" >>, << ".", "J", "P", "G" >>,
      << ".", "P", "N", "G" >>, << ".", "j", "p", "e", "g" >> })

(***************************************************************************)
(* The sampler's pure parts.                                               *)
(***************************************************************************)
\* re.match(f"^{flower}_\\d+\\.", filename); of the regular-expression
\* metacharacters a category name may hold, "." (any character) is modelled
RegexMatch(flower, filename) ==
  LET L == Len(flower) IN
  /\ Len(filename) >= L + 3
  /\ \A i \in 1..L : flower[i] = "." \/ flower[i] = filename[i]
  /\ filename[L + 1] = "_"
  /\ \E m \in 1..(Len(filename) - L - 2) :
       /\ \A j \in 1..m : filename[L + 1 + j] \in Digits
       /\ filename[L + 2 + m] = "."

\* variant: the last matching category instead of the first (no break)
LastMatch(flower_types, filename) ==
  LET hits == {i \in 1..Len(flower_types) : RegexMatch(flower_types[i], filename)} IN
  IF hits = {} THEN 0 ELSE CHOOSE i \in hits : \A j \in hits : j <= i

\* the inner loop over flower_types with its break: the index of the
\* category the file is appended to, 0 when no pattern matches
FirstMatch(flower_types, filename) ==
  LET hits == {i \in 1..Len(flower_types) : RegexMatch(flower_types[i], filename)} IN
  IF hits = {} THEN 0 ELSE CHOOSE i \in hits : \A j \in hits : i <= j

\* the keys of {flower: [] for flower in flower_types}, in insertion order
RECURSIVE Keys(_)
Keys(flower_types) ==
  IF flower_types = << >> THEN << >>
  ELSE LET n == Len(flower_types)
           front == Keys(SubSeq(flower_types, 1, n - 1))
       IN  IF flower_types[n] \in Range(front) THEN front
           ELSE Append(front, flower_types[n])

\* the scan loop: the files appended to flower_files[flower], in listing order
FlowerFiles(flower_types, listing, flower) ==
  LET Mine(filename) ==
        /\ IsFile(filename)
        /\ SamplerEligible(filename)
        /\ FirstMatch(flower_types, filename) # 0
        /\ flower_types[FirstMatch(flower_types, filename)] = flower
  IN  SelectSeq(listing, Mine)

\* stats['total_files_found'] after the scan loop
TotalFilesFound(listing) ==
  Cardinality({i \in 1..Len(listing) : IsFile(listing[i]) /\ SamplerEligible(listing[i])})

\* hash(flower): CPython keys its string hash with a per-process salt
\* (PYTHONHASHSEED); the value is a signed integer
RECURSIVE PolyHash(_, _)
PolyHash(h, s) ==
  IF s = << >> THEN h ELSE PolyHash((h * 31 + Ord(Head(s))) % 65536, Tail(s))

StrHash(salt, s) == PolyHash((salt * 40503 + 7) % 65536, s) - 32768

\* flower_seed = seed + hash(flower) % 1000   (% binds tighter, result 0..999)
FlowerSeed(seed, salt, flower) == seed + (StrHash(salt, flower) % 1000)

\* random.seed(a) for an integer: the generator state set from |a|
RandomSeed(a) == (IF a < 0 THEN 0 - a ELSE a) % 65537

\* one step of the generator (a small linear congruential generator stands
\* for the Mersenne Twister)
RngNext(state) == (state * 75 + 74) % 65537

\* variant: sampling with replacement (the pool is never updated)
RECURSIVE SampleLoopRepl(_, _, _, _, _)
SampleLoopRepl(state, pool, i, k, result) ==
  IF i = k THEN [result |-> result, state |-> state]
  ELSE LET n == Len(pool)
           s1 == RngNext(state)
           j  == (s1 \div 16) % n
       IN  SampleLoopRepl(s1, pool, i + 1, k, Append(result, pool[j + 1]))

\* random.sample's selection loop:
\*   j = randbelow(n - i); result[i] = pool[j]; pool[j] = pool[n - i - 1]
RECURSIVE SampleLoop(_, _, _, _, _)
SampleLoop(state, pool, i, k, result) ==
  IF i = k THEN [result |-> result, state |-> state]
  ELSE LET n  == Len(pool)
           s1 == RngNext(state)
           j  == (s1 \div 16) % (n - i)
       IN  SampleLoop(s1, [pool EXCEPT ![j + 1] = pool[n - i]], i + 1, k,
                      Append(result, pool[j + 1]))

\* random.sample(population, k) from generator state `state`
RandomSample(state, population, k) == SampleLoop(state, population, 0, k, << >>)

\* variant: the files are sampled in listing order, without sorted()
SampleFlowerNoSort(files, k, seed, salt, flower, rng) ==
  IF Len(files) < k
  THEN [sample |-> files, rng |-> rng, warned |-> TRUE]
  ELSE LET r == RandomSample(RandomSeed(FlowerSeed(seed, salt, flower)), files, k)
       IN  [sample |-> r.result, rng |-> r.state, warned |-> FALSE]

\* variant: the warning branch is also taken when n equals samples_per_type
SampleFlowerWarnAtEqual(files, k, seed, salt, flower, rng) ==
  IF Len(files) <= k
  THEN [sample |-> files, rng |-> rng, warned |-> TRUE]
  ELSE LET r == RandomSample(RandomSeed(FlowerSeed(seed, salt, flower)), Sorted(files), k)
       IN  [sample |-> r.result, rng |-> r.state, warned |-> FALSE]

\* lines 99-111: the sample of one flower, the generator state afterwards,
\* and whether the "Only n images available" warning was printed
SampleFlower(files, k, seed, salt, flower, rng) ==
  IF Len(files) < k
  THEN [sample |-> files, rng |-> rng, warned |-> TRUE]
  ELSE LET r == RandomSample(RandomSeed(FlowerSeed(seed, salt, flower)), Sorted(files), k)
       IN  [sample |-> r.result, rng |-> r.state, warned |-> FALSE]

\* the loop over flower_files.items(): the samples in key order, threading
\* the generator state from one flower to the next
RECURSIVE SampleAll(_, _, _, _, _, _, _)
SampleAll(keys, flower_types, listing, k, seed, salt, rng) ==
  IF keys = << >> THEN [samples |-> << >>, warned |-> {}, rng |-> rng]
  ELSE LET one  == SampleFlower(FlowerFiles(flower_types, listing, Head(keys)),
                                k, seed, salt, Head(keys), rng)
           rest == SampleAll(Tail(keys), flower_types, listing, k, seed, salt, one.rng)
       IN  [samples |-> << one.sample >> \o rest.samples,
            warned  |-> (IF one.warned THEN {Head(keys)} ELSE {}) \cup rest.warned,
            rng     |-> rest.rng]

(***************************************************************************)
(* The scoring scripts' pure parts.                                        *)
(***************************************************************************)
\* the model's replies tried (after .strip())
Responses ==
  { << "Y", "e", "s" >>,
    << "N", "o" >>,
    << "y", "e", "s" >>,
    << "Y", "E", "S" >>,
    << "N", "o", ",", " ", "t", "h", "e", " ", "i", "m", "a", "g", "e", " ",
       "i", "s", " ", "c", "l", "e", "a", "r", "." >>,
    << "N", "o", "t", " ", "Y", "e", "s" >> }

\* what one pass of a classification loop can meet: the image cannot be
\* loaded, the model raises, or the model replies
ClassifyOutcomes ==
  {[kind |-> "load failed", response |-> << >>],
   [kind |-> "model failed", response |-> << >>]}
    \cup {[kind |-> "reply", response |-> r] : r \in Responses}

\* what one pass of the NIQE loop can meet: Image.open, verify or the second
\* open raises, the metric raises, or a score comes back
NiqeOutcomes ==
  {[kind |-> k, score |-> 0] : k \in {"open failed", "verify failed", "metric failed"}}
    \cup {[kind |-> "scored", score |-> sc] : sc \in {4, 9}}

\* the input folder, as a string
ImageFolder == << "d" >>

\* os.path.join(folder, name)
JoinPath(folder, name) == folder \o << "/" >> \o name

\* os.path.basename(path)
Basename(path) ==
  LET seps == {p \in 1..Len(path) : path[p] = "/"} IN
  IF seps = {} THEN path
  ELSE SubSeq(path, (CHOOSE p \in seps : \A q \in seps : q <= p) + 1, Len(path))

\* os.path.splitext(name)[0], for a bare file name: cut at the last dot
\* unless that dot only leads the name
SplitExtBase(name) ==
  LET dots == {p \in 2..Len(name) : name[p] = "." /\ \E q \in 1..(p - 1) : name[q] # "."}
  IN  IF dots = {} THEN name
      ELSE SubSeq(name, 1, (CHOOSE p \in dots : \A q \in dots : q <= p) - 1)

\* other_taxa.py lines 48-53: "_".join(base_name.split('_')[:-1]), or the
\* base name when it holds no underscore
FlowerNameOf(image_filename) ==
  LET base == SplitExtBase(image_filename)
      us   == {p \in 1..Len(base) : base[p] = "_"}
  IN  IF us = {} THEN base
      ELSE SubSeq(base, 1, (CHOOSE p \in us : \A q \in us : q <= p) - 1)

\* variant: the reply is lower-cased before the test
YesNoAnyCase(response) ==
  IF Contains(Lower(response), << "y", "e", "s" >>) THEN "Yes" ELSE "No"

\* result = "Yes" if "Yes" in response else "No"
YesNo(response) ==
  IF Contains(response, << "Y", "e", "s" >>) THEN "Yes" ELSE "No"

\* the first column of a classification row: other_taxa.py keeps the listed
\* name, qwen_vl_iqa.py the joined path, qwen200.py the basename of the path
RowKey(scriptName, image) ==
  IF scriptName = "qwen200" THEN Basename(image) ELSE image

\* variant: a failed image leaves no row
RowsAfterDropErrors(rows, scriptName, image, outcome) ==
  IF outcome.kind = "reply"
  THEN Append(rows,
         IF scriptName = "other_taxa"
         THEN << RowKey(scriptName, image), YesNo(outcome.response), FlowerNameOf(image) >>
         ELSE << RowKey(scriptName, image), YesNo(outcome.response) >>)
  ELSE rows

\* the try/except of a classification loop: `results` after one image
RowsAfter(rows, scriptName, image, outcome) ==
  IF outcome.kind = "reply"
  THEN Append(rows,
         IF scriptName = "other_taxa"
         THEN << RowKey(scriptName, image), YesNo(outcome.response), FlowerNameOf(image) >>
         ELSE << RowKey(scriptName, image), YesNo(outcome.response) >>)
  ELSE Append(rows,
         IF scriptName = "other_taxa"
         THEN << RowKey(scriptName, image), "Error", << "N", "/", "A" >> >>
         ELSE << RowKey(scriptName, image), "Error" >>)

\* variant: a failure of the metric is logged as corrupted after the path
\* was already appended to valid_images
NiqeListsAfterEarlyAppend(lists, image_path, outcome) ==
  IF outcome.kind = "scored"
  THEN [lists EXCEPT !.valid_images = Append(@, image_path),
                     !.valid_scores = Append(@, outcome.score)]
  ELSE IF outcome.kind = "metric failed"
  THEN [lists EXCEPT !.valid_images = Append(@, image_path),
                     !.corrupted_images = Append(@, image_path),
                     !.corrupted_errors = Append(@, outcome.kind)]
  ELSE [lists EXCEPT !.corrupted_images = Append(@, image_path),
                     !.corrupted_errors = Append(@, outcome.kind)]

\* niqe.py lines 33-50: the four lists after one image
NiqeListsAfter(lists, image_path, outcome) ==
  IF outcome.kind = "scored"
  THEN [lists EXCEPT !.valid_images = Append(@, image_path),
                     !.valid_scores = Append(@, outcome.score)]
  ELSE [lists EXCEPT !.corrupted_images = Append(@, image_path),
                     !.corrupted_errors = Append(@, outcome.kind)]

(***************************************************************************)
(* State.                                                                  *)
(***************************************************************************)
VARIABLES
  script,            \* which script this process runs
  pc,                \* where the process is
  exitCode,          \* the process's exit status once it has ended, else -1
  folderExists,      \* whether the input directory exists
  dirFiles,          \* the entries of the input directory
  printed,           \* the report lines printed so far (by kind)
  \* ---- populate_test_directory.py
  flower_types, samples_per_type, seeds,
  run,               \* 1 for the first invocation of the script, 2 for a second
  hashSalt,          \* the process's string-hash key
  i,                 \* position in seeds of the next seed
  rng,               \* the state of the `random` module's generator
  all_stats,         \* seed -> stats, or the error of that seed
  seedLog,           \* per processed seed: what extract_..._single_seed did
  copied,            \* per key: the files copy2 wrote in the latest pass
  metadata,          \* seed -> content of seed_<seed>/sampling_metadata.json
  summary,           \* content of experiment_summary.json, << >> before
  prevSamples,       \* the samples the previous invocation selected
  \* ---- the scoring scripts
  subfolders,        \* qwen200.py: the flower sub-folders that exist
  image_paths, idx, results,
  valid_images, valid_scores, corrupted_images, corrupted_errors,
  modelCalls,        \* images handed to the model so far
  outcomeLog,        \* what each pass of the loop met (history)
  csvWrites          \* the CSV files written so far, each with its rows

commonVars  == << script, pc, exitCode, folderExists, dirFiles, printed >>
samplerVars == << flower_types, samples_per_type, seeds, run, hashSalt, i, rng,
                  all_stats, seedLog, copied, metadata, summary, prevSamples >>
scorerVars  == << subfolders, image_paths, idx, results, valid_images, valid_scores,
                  corrupted_images, corrupted_errors, modelCalls, outcomeLog,
                  csvWrites >>
vars == << commonVars, samplerVars, scorerVars >>

\* directory contents tried: at most MaxFiles entries of FileNames
Listings == {S \in SUBSET FileNames : Cardinality(S) <= MaxFiles}

ScorerIdle ==
  /\ subfolders = {} /\ image_paths = << >> /\ idx = 0 /\ results = << >>
  /\ valid_images = << >> /\ valid_scores = << >>
  /\ corrupted_images = << >> /\ corrupted_errors = << >>
  /\ modelCalls = 0 /\ outcomeLog = << >> /\ csvWrites = << >>

(***************************************************************************)
(* populate_test_directory.py                                              *)
(***************************************************************************)
SamplerInit ==
  /\ script = "sampler" /\ pc = "main" /\ exitCode = -1 /\ printed = {}
  /\ folderExists \in BOOLEAN
  /\ dirFiles \in Listings
  /\ (~folderExists => dirFiles = {})
  /\ flower_types \in FlowerTypeLists
  /\ samples_per_type \in 1..MaxK
  /\ seeds \in SeedLists
  /\ run = 1 /\ hashSalt \in HashSalts
  /\ i = 0 /\ rng = 0
  /\ all_stats = << >> /\ seedLog = << >> /\ copied = << >>
  /\ metadata = << >> /\ summary = << >>
  /\ prevSamples = << >>
  /\ ScorerIdle

\* f with key k set to v (a dict assignment d[k] = v)
DictSet(f, k, v) == [x \in (DOMAIN f) \cup {k} |-> IF x = k THEN v ELSE f[x]]

\* lines 159-166: extract_multiple_seed_datasets up to its loop
MultiStart ==
  /\ script = "sampler" /\ pc = "main"
  /\ all_stats' = << >>
  /\ i' = 1
  /\ pc' = "seeds"
  /\ UNCHANGED << script, exitCode, folderExists, dirFiles, printed,
                  flower_types, samples_per_type, seeds, run, hashSalt, rng,
                  seedLog, copied, metadata, summary, prevSamples, scorerVars >>

\* the stats entry of a seed that raised
ErrorStats(seed, msg) ==
  [error |-> msg, seed_used |-> seed, total_files_found |-> 0,
   files_per_flower |-> << >>, samples_copied |-> << >>]

\* variant: the copy loop is left at the first copy2 that raises
CopiedCountStopAtFailure(sample_files, failedPos) ==
  Cardinality({p \in 1..Len(sample_files) : \A q \in 1..p : q \notin failedPos})

\* the copy loop of one flower (lines 117-135): the positions of sample_files
\* whose copy2 raised are `failedPos`; gives copied_count
CopiedCount(sample_files, failedPos) ==
  Cardinality({p \in 1..Len(sample_files) : p \notin failedPos})

\* the files present in the flower's destination folder after the copy loop
CopiedFiles(sample_files, failedPos) ==
  {sample_files[p] : p \in (1..Len(sample_files)) \ failedPos}

\* one pass of the seeds loop when the source folder is missing: the seed is
\* set, the destination folder is made (line 52), then line 74 raises and
\* the except of line 193 records the error; the loop goes on
SourceMissing(seed) ==
  /\ rng' = RandomSeed(seed)
  /\ seedLog' = Append(seedLog,
       [seed |-> seed, destMade |-> TRUE, raised |-> "source",
        files |-> << >>, samples |-> << >>, warned |-> {}])
  /\ copied' = << >>
  /\ all_stats' = DictSet(all_stats, seed, ErrorStats(seed, "Source folder not found"))
  /\ printed' = printed \cup {"Error creating dataset"}
  /\ i' = i + 1
  /\ UNCHANGED << pc, exitCode, metadata, summary >>

\* save_sampling_metadata's record (lines 211-227)
Metadata(stats, types, k, seed) ==
  [seed_used |-> seed, flower_types |-> types, samples_per_type |-> k,
   files_found_per_flower |-> stats.files_per_flower,
   samples_copied_per_flower |-> stats.samples_copied,
   total_files_found |-> stats.total_files_found,
   total_samples_copied |-> SumSeq(stats.samples_copied)]

\* lines 76-111 for one seed and one directory listing: flower_files and
\* sample_files per key, the warnings, the generator state afterwards
Drawn(seed, listing) ==
  LET keys == Keys(flower_types)
      all  == SampleAll(keys, flower_types, listing, samples_per_type, seed,
                        hashSalt, RandomSeed(seed))
  IN  [files   |-> [j \in 1..Len(keys) |-> FlowerFiles(flower_types, listing, keys[j])],
       samples |-> all.samples, warned |-> all.warned, rng |-> all.rng,
       total_files_found |-> TotalFilesFound(listing)]

\* the copy2 calls of one seed: << key position, position in sample_files >>
CopyCalls(samples) ==
  UNION {{<< j, p >> : p \in 1..Len(samples[j])} : j \in 1..Len(samples)}

\* the rest of one pass of the seeds loop with the source folder present:
\* the copy loops (the copy2 calls in `failed` raise), stats, then the
\* metadata file (written iff metaOk) and all_stats
SeedSampled(seed, drawn, failed, metaOk) ==
  LET n == Len(drawn.samples)
      fpos(j) == {p \in 1..Len(drawn.samples[j]) : << j, p >> \in failed}
      stats == [error |-> "none", seed_used |-> seed,
                total_files_found |-> drawn.total_files_found,
                files_per_flower |-> [j \in 1..n |-> Len(drawn.files[j])],
                samples_copied |->
                  [j \in 1..n |-> CopiedCount(drawn.samples[j], fpos(j))]]
  IN
  /\ rng' = drawn.rng
  /\ seedLog' = Append(seedLog,
       [seed |-> seed, destMade |-> TRUE,
        raised |-> IF metaOk THEN "none" ELSE "metadata",
        files |-> drawn.files, samples |-> drawn.samples, warned |-> drawn.warned])
  /\ copied' = [j \in 1..n |-> CopiedFiles(drawn.samples[j], fpos(j))]
  /\ IF metaOk
     THEN /\ metadata' = DictSet(metadata, seed,
                            Metadata(stats, flower_types, samples_per_type, seed))
          /\ all_stats' = DictSet(all_stats, seed, stats)
          /\ printed' = printed \cup {"Dataset completed successfully"}
     ELSE /\ metadata' = metadata
          /\ all_stats' = DictSet(all_stats, seed, ErrorStats(seed, "metadata not written"))
          /\ printed' = printed \cup {"Error creating dataset"}
  /\ i' = i + 1
  /\ UNCHANGED << pc, exitCode, summary >>

\* lines 168-195: the body of the seeds loop for seeds[i]; os.listdir may
\* return the entries in any order
SeedStep ==
  /\ script = "sampler" /\ pc = "seeds" /\ i <= Len(seeds)
  /\ IF ~folderExists
     THEN SourceMissing(seeds[i])
     ELSE \E listing \in Perms(dirFiles) :
          \E drawn \in {Drawn(seeds[i], listing)} :
          \E failed \in SUBSET CopyCalls(drawn.samples) :
          \E metaOk \in BOOLEAN :
            SeedSampled(seeds[i], drawn, failed, metaOk)
  /\ UNCHANGED << script, folderExists, dirFiles, flower_types, samples_per_type,
                  seeds, run, hashSalt, prevSamples, scorerVars >>

\* variant: one failed seed marks every seed of the summary as failed
ResultsSummaryAllOrNothing(stats, seedList) ==
  [sd \in Range(seedList) |->
     IF \A other \in Range(seedList) :
          other \in DOMAIN stats /\ stats[other].error = "none"
     THEN [status |-> "success", total_copied |-> SumSeq(stats[sd].samples_copied),
           per_flower |-> stats[sd].samples_copied, error |-> "none"]
     ELSE [status |-> "failed", total_copied |-> 0, per_flower |-> << >>,
           error |-> IF sd \in DOMAIN stats THEN stats[sd].error ELSE "Unknown error"]]

\* save_overall_summary's results_summary (lines 256-269)
ResultsSummary(stats, seedList) ==
  [sd \in Range(seedList) |->
     IF sd \in DOMAIN stats /\ stats[sd].error = "none"
     THEN [status |-> "success", total_copied |-> SumSeq(stats[sd].samples_copied),
           per_flower |-> stats[sd].samples_copied, error |-> "none"]
     ELSE [status |-> "failed", total_copied |-> 0, per_flower |-> << >>,
           error |-> IF sd \in DOMAIN stats THEN stats[sd].error ELSE "Unknown error"]]

\* lines 197-200 and 338-346: the summary is saved, the call returns and
\* __main__ reports and ends.  (An I/O error on the base folder or on the
\* summary file, which would land in the except of line 348, is not modelled.)
SaveSummaryAndReport ==
  /\ script = "sampler" /\ pc = "seeds" /\ i > Len(seeds)
  /\ summary' = ResultsSummary(all_stats, seeds)
  /\ printed' = printed \cup {"All datasets created successfully"}
  /\ pc' = "done" /\ exitCode' = 0
  /\ UNCHANGED << script, folderExists, dirFiles, flower_types, samples_per_type,
                  seeds, run, hashSalt, i, rng, all_stats, seedLog, copied,
                  metadata, prevSamples, scorerVars >>

\* the script is started a second time, on the same inputs, as a new process
StartProcess ==
  /\ script = "sampler" /\ pc = "done" /\ run = 1
  /\ run' = 2
  /\ hashSalt' \in HashSalts
  /\ prevSamples' = [j \in 1..Len(seedLog) |-> seedLog[j].samples]
  /\ pc' = "main" /\ exitCode' = -1 /\ printed' = {}
  /\ i' = 0 /\ rng' = 0
  /\ all_stats' = << >> /\ seedLog' = << >> /\ copied' = << >>
  /\ metadata' = << >> /\ summary' = << >>
  /\ UNCHANGED << script, folderExists, dirFiles, flower_types, samples_per_type,
                  seeds, scorerVars >>

SamplerNext == MultiStart \/ SeedStep \/ SaveSummaryAndReport

\* one invocation of the sampler
SamplerSpec == SamplerInit /\ [][SamplerNext]_vars

RerunNext == MultiStart \/ SeedStep \/ SaveSummaryAndReport \/ StartProcess

\* two invocations of the sampler, one after the other, on the same inputs
RerunSpec == SamplerInit /\ [][RerunNext]_vars

(***************************************************************************)
(* The scoring scripts: niqe.py, other_taxa.py, qwen_vl_iqa.py,            *)
(* qwen200.py, and qwen_iqa.py (which only loads the model).               *)
(***************************************************************************)
ScorerScripts == {"niqe", "other_taxa", "qwen_vl_iqa", "qwen200", "qwen_iqa"}

ClassifierScripts == {"other_taxa", "qwen_vl_iqa", "qwen200"}

\* qwen200.py line 42: flowers (shortened to the category names of FileNames)
Flowers200 == << << "A" >>, << "B" >> >>

\* the entries of a flower's sub-folder of the seed folder: the entries
\* whose name starts with the flower's name (the sampler's layout)
SubfolderFiles(flower) ==
  {n \in dirFiles : Len(n) >= Len(flower) /\ SubSeq(n, 1, Len(flower)) = flower}

SamplerIdle ==
  /\ flower_types = << >> /\ samples_per_type = 0 /\ seeds = << >>
  /\ run = 1 /\ hashSalt = 0 /\ i = 0 /\ rng = 0
  /\ all_stats = << >> /\ seedLog = << >> /\ copied = << >>
  /\ metadata = << >> /\ summary = << >> /\ prevSamples = << >>

ScorerInit ==
  /\ script \in ScorerScripts
  /\ pc = "start" /\ exitCode = -1 /\ printed = {}
  /\ folderExists \in BOOLEAN
  /\ dirFiles \in Listings
  /\ (~folderExists \/ script = "qwen_iqa" => dirFiles = {})
  /\ (script = "qwen_iqa" => folderExists)
  /\ subfolders \in SUBSET Range(Flowers200)
  /\ (script # "qwen200" \/ ~folderExists => subfolders = {})
  /\ image_paths = << >> /\ idx = 0 /\ results = << >>
  /\ valid_images = << >> /\ valid_scores = << >>
  /\ corrupted_images = << >> /\ corrupted_errors = << >>
  /\ modelCalls = 0 /\ outcomeLog = << >> /\ csvWrites = << >>
  /\ SamplerIdle

\* the suffix filter of each script's directory listing
EligibleFor(scriptName, img) ==
  IF scriptName = "niqe" THEN NiqeEligible(img) ELSE ClassifierEligible(img)

\* the process ends with status `code`
Exit(code, line) ==
  /\ pc' = "done" /\ exitCode' = code
  /\ printed' = printed \cup {line}
  /\ UNCHANGED << image_paths, idx >>

\* the loop is entered over `paths`
EnterLoop(paths) ==
  /\ image_paths' = paths /\ idx' = 1 /\ pc' = "loop"
  /\ UNCHANGED << exitCode, printed >>

\* niqe.py lines 26-28: os.listdir raises when the folder is missing, and
\* nothing catches it: traceback, exit status 1.  No other check is made.
NiqeEnumerate ==
  /\ script = "niqe" /\ pc = "start"
  /\ IF ~folderExists
     THEN Exit(1, "Traceback")
     ELSE \E order \in Perms({n \in dirFiles : EligibleFor("niqe", n)}) :
            EnterLoop([j \in 1..Len(order) |-> JoinPath(ImageFolder, order[j])])
  /\ UNCHANGED << script, folderExists, dirFiles, samplerVars, subfolders, results,
                  valid_images, valid_scores, corrupted_images, corrupted_errors,
                  modelCalls, outcomeLog, csvWrites >>

\* other_taxa.py lines 27-40 and qwen_vl_iqa.py lines 30-43: exit(1) when
\* the folder is missing or the filtered listing is empty
ClassifierEnumerate ==
  /\ script \in {"other_taxa", "qwen_vl_iqa"} /\ pc = "start"
  /\ IF ~folderExists
     THEN Exit(1, "Error: Directory does not exist")
     ELSE \E order \in Perms({n \in dirFiles : EligibleFor(script, n)}) :
            IF order = << >>
            THEN Exit(1, "No images found")
            ELSE EnterLoop(IF script = "other_taxa" THEN order
                           ELSE [j \in 1..Len(order) |-> JoinPath(ImageFolder, order[j])])
  /\ UNCHANGED << script, folderExists, dirFiles, samplerVars, subfolders, results,
                  valid_images, valid_scores, corrupted_images, corrupted_errors,
                  modelCalls, outcomeLog, csvWrites >>

\* qwen200.py lines 44-49: the images of every existing flower sub-folder,
\* in the order of `flowers`
RECURSIVE SubfolderListings(_)
SubfolderListings(flowers) ==
  IF flowers = << >> THEN {<< >>}
  ELSE LET f == Head(flowers)
           here == IF f \in subfolders
                   THEN {[j \in 1..Len(o) |-> JoinPath(ImageFolder \o << "/" >> \o f, o[j])] :
                           o \in Perms({n \in SubfolderFiles(f) : EligibleFor("qwen200", n)})}
                   ELSE {<< >>}
       IN  {a \o b : a \in here, b \in SubfolderListings(Tail(flowers))}

\* qwen200.py lines 32-57
Qwen200Enumerate ==
  /\ script = "qwen200" /\ pc = "start"
  /\ IF ~folderExists
     THEN Exit(1, "Error: Directory does not exist")
     ELSE \E paths \in SubfolderListings(Flowers200) :
            IF paths = << >>
            THEN Exit(1, "No images found")
            ELSE EnterLoop(paths)
  /\ UNCHANGED << script, folderExists, dirFiles, samplerVars, subfolders, results,
                  valid_images, valid_scores, corrupted_images, corrupted_errors,
                  modelCalls, outcomeLog, csvWrites >>

\* variant: the loop is left after its first pass
LoopDoneEarly(k, paths) == k > Len(paths) \/ k > 1

\* the for loop over the image list is exhausted
LoopDone(k, paths) == k > Len(paths)

\* niqe.py lines 31-50: one pass of the loop
NiqeIteration ==
  /\ script = "niqe" /\ pc = "loop" /\ ~LoopDone(idx, image_paths)
  /\ \E outcome \in NiqeOutcomes :
       LET after == NiqeListsAfter(
                      [valid_images |-> valid_images, valid_scores |-> valid_scores,
                       corrupted_images |-> corrupted_images,
                       corrupted_errors |-> corrupted_errors],
                      image_paths[idx], outcome)
       IN  /\ valid_images' = after.valid_images
           /\ valid_scores' = after.valid_scores
           /\ corrupted_images' = after.corrupted_images
           /\ corrupted_errors' = after.corrupted_errors
           /\ modelCalls' = IF outcome.kind \in {"metric failed", "scored"}
                            THEN modelCalls + 1 ELSE modelCalls
           /\ outcomeLog' = Append(outcomeLog, outcome)
  /\ idx' = idx + 1
  /\ UNCHANGED << commonVars, samplerVars, subfolders, image_paths, results, csvWrites >>

\* one pass of a classification loop (other_taxa.py lines 44-93,
\* qwen_vl_iqa.py lines 47-84, qwen200.py lines 61-98)
ClassifyIteration ==
  /\ script \in ClassifierScripts /\ pc = "loop" /\ ~LoopDone(idx, image_paths)
  /\ \E outcome \in ClassifyOutcomes :
       /\ results' = RowsAfter(results, script, image_paths[idx], outcome)
       /\ modelCalls' = IF outcome.kind \in {"model failed", "reply"}
                        THEN modelCalls + 1 ELSE modelCalls
       /\ outcomeLog' = Append(outcomeLog, outcome)
  /\ idx' = idx + 1
  /\ UNCHANGED << commonVars, samplerVars, subfolders, image_paths, valid_images,
                  valid_scores, corrupted_images, corrupted_errors, csvWrites >>

\* the CSV files a script writes after its loop, in order, with their rows
CsvFiles ==
  IF script = "niqe"
  THEN << [file |-> "valid_niqe_results3000.csv",
           rows |-> [j \in 1..Len(valid_images) |-> << valid_images[j], valid_scores[j] >>]],
          [file |-> "niqe_corrupted_images3000.csv",
           rows |-> [j \in 1..Len(corrupted_images) |->
                       << corrupted_images[j], corrupted_errors[j] >>]] >>
  ELSE << [file |-> "output_csv", rows |-> results] >>

\* niqe.py lines 55-67, other_taxa.py lines 97-102, qwen_vl_iqa.py lines
\* 88-93, qwen200.py lines 102-107: the results are saved
WriteCsv ==
  /\ script \in ClassifierScripts \cup {"niqe"}
  /\ pc = "loop" /\ LoopDone(idx, image_paths)
  /\ csvWrites' = csvWrites \o CsvFiles
  /\ pc' = "report"
  /\ printed' = printed \cup {"Results saved"}
  /\ UNCHANGED << script, exitCode, folderExists, dirFiles, samplerVars, subfolders,
                  image_paths, idx, results, valid_images, valid_scores,
                  corrupted_images, corrupted_errors, modelCalls, outcomeLog >>

\* the closing print of the elapsed time; the script ends, status 0
Finish ==
  /\ script \in ClassifierScripts \cup {"niqe"}
  /\ pc = "report"
  /\ pc' = "done" /\ exitCode' = 0
  /\ printed' = printed \cup {"finished"}
  /\ UNCHANGED << script, folderExists, dirFiles, samplerVars, scorerVars >>

\* qwen_iqa.py: the model and the processor are loaded, one line is printed
QwenIqaRun ==
  /\ script = "qwen_iqa" /\ pc = "start"
  /\ pc' = "done" /\ exitCode' = 0
  /\ printed' = printed \cup {"Model and processor loaded successfully"}
  /\ UNCHANGED << script, folderExists, dirFiles, samplerVars, scorerVars >>

ScorerNext ==
  \/ NiqeEnumerate \/ ClassifierEnumerate \/ Qwen200Enumerate
  \/ NiqeIteration \/ ClassifyIteration
  \/ WriteCsv \/ Finish \/ QwenIqaRun

\* one invocation of one scoring script
ScorerSpec == ScorerInit /\ [][ScorerNext]_vars

(***************************************************************************)
(* Any one script of the repository, run once.                             *)
(***************************************************************************)
Init == SamplerInit \/ ScorerInit

Next == SamplerNext \/ ScorerNext

Spec == Init /\ [][Next]_vars

(***************************************************************************)
(* Properties of the sampler.                                              *)
(***************************************************************************)
\* the passes of the seeds loop that got as far as scanning and sampling
Sampled == {j \in 1..Len(seedLog) : seedLog[j].raised # "source"}

\* a name ending in .jpg, .jpeg or .png, whatever the case of its letters
ImageName(n) ==
  \E ext \in { << ".", "j", "p", "g" >>, << ".", "j", "p", "e", "g" >>,
               << ".", "p", "n", "g" >> } :
    /\ Len(n) >= Len(ext)
    /\ Lower(SubSeq(n, Len(n) - Len(ext) + 1, Len(n))) = ext

Min(a, b) == IF a <= b THEN a ELSE b

\* C1: two invocations of the sampler on the same seeds, flower_types,
\* samples_per_type and source files select the same set of file names for
\* every seed and every category.
C1_RunsSelectSameFiles ==
  (run = 2 /\ pc = "done") =>
    /\ Len(prevSamples) = Len(seedLog)
    /\ \A j \in 1..Len(seedLog) :
         /\ Len(prevSamples[j]) = Len(seedLog[j].samples)
         /\ \A c \in 1..Len(seedLog[j].samples) :
              Range(seedLog[j].samples[c]) = Range(prevSamples[j][c])

\* C2: for every category with n assigned files and sample size k, the
\* selected files are pairwise distinct, are files assigned to the category,
\* and number min(n, k); the files copied and the copied count never exceed n.
C2_SampleIsDistinctSubsetOfSizeMin ==
  /\ \A j \in Sampled :
       \A c \in 1..Len(seedLog[j].samples) :
         LET files  == seedLog[j].files[c]
             sample == seedLog[j].samples[c]
         IN  /\ \A p, q \in 1..Len(sample) : p # q => sample[p] # sample[q]
             /\ Range(sample) \subseteq Range(files)
             /\ Len(sample) = Min(Len(files), samples_per_type)
  /\ (seedLog # << >> /\ seedLog[Len(seedLog)].raised # "source") =>
       \A c \in 1..Len(copied) :
         /\ copied[c] \subseteq Range(seedLog[Len(seedLog)].samples[c])
         /\ Cardinality(copied[c]) <= Len(seedLog[Len(seedLog)].files[c])
  /\ \A sd \in DOMAIN all_stats :
       all_stats[sd].error = "none" =>
         \A c \in 1..Len(all_stats[sd].samples_copied) :
           /\ all_stats[sd].samples_copied[c] <= all_stats[sd].files_per_flower[c]
           /\ all_stats[sd].samples_copied[c] <= samples_per_type

\* a category with more files than asked for was sampled down to k files,
\* and its files were copied
C2_Witness ==
  /\ pc = "done" /\ seedLog # << >>
  /\ seedLog[Len(seedLog)].raised = "none"
  /\ \E c \in 1..Len(copied) :
       /\ Len(seedLog[Len(seedLog)].files[c]) > samples_per_type
       /\ Len(seedLog[Len(seedLog)].samples[c]) = samples_per_type
       /\ Cardinality(copied[c]) = samples_per_type

\* the positions in flower_types of the categories whose pattern matches
Matching(name) == {t \in 1..Len(flower_types) : RegexMatch(flower_types[t], name)}

\* how often `name` stands in the file list `files`
Occurrences(files, name) == Cardinality({p \in 1..Len(files) : files[p] = name})

\* C3: a regular file with an image extension whose name matches the pattern
\* of some listed category stands once in the list of the first matching
\* category of flower_types and in no other list; any other entry stands in
\* no list.
C3_FirstMatchingCategoryOnly ==
  \A j \in Sampled :
    LET keys == Keys(flower_types) IN
    /\ Len(seedLog[j].files) = Len(keys)
    /\ \A name \in dirFiles :
         \A c \in 1..Len(keys) :
           Occurrences(seedLog[j].files[c], name) =
             IF /\ IsFile(name) /\ ImageName(name) /\ Matching(name) # {}
                /\ \A t \in Matching(name) :
                     keys[c] = flower_types[t] \/ \E u \in Matching(name) : u < t
                /\ \E t \in Matching(name) : keys[c] = flower_types[t]
             THEN 1 ELSE 0

\* a file matched by two different listed categories went to the first
C3_Witness ==
  \E j \in Sampled : \E name \in dirFiles : \E t, u \in Matching(name) :
    /\ t < u /\ flower_types[t] # flower_types[u]
    /\ \A v \in Matching(name) : t <= v
    /\ \E c \in 1..Len(seedLog[j].files) :
         /\ Keys(flower_types)[c] = flower_types[t]
         /\ name \in Range(seedLog[j].files[c])

\* C8: with the source folder missing the run aborts at once: no second seed
\* is processed, no destination folder and no metadata file is made, and the
\* run does not report success.
C8_MissingSourceAborts ==
  ~folderExists /\ script = "sampler" =>
    /\ Len(seedLog) <= 1
    /\ \A j \in 1..Len(seedLog) : ~seedLog[j].destMade
    /\ metadata = << >>
    /\ "All datasets created successfully" \notin printed

(***************************************************************************)
(* Properties of the scoring scripts.                                      *)
(***************************************************************************)
\* the image paths the loop has been through
Processed == SubSeq(image_paths, 1, idx - 1)

\* no exception was raised in the pass of the NIQE loop with this outcome
NoException(outcome) ==
  outcome.kind \notin {"open failed", "verify failed", "metric failed"}

\* C4: in niqe.py, after any number of passes of the loop, every processed
\* path stands in exactly one of valid_images and corrupted_images, and in
\* valid_images (with one score) iff nothing was raised for it; at the end
\* the valid rows and the corrupted rows add up to the enumerated files.
C4_NiqeListsPartitionProcessed ==
  script = "niqe" /\ pc \in {"loop", "report", "done"} /\ folderExists =>
    /\ Len(outcomeLog) = idx - 1
    /\ Len(valid_images) = Len(valid_scores)
    /\ Len(corrupted_images) = Len(corrupted_errors)
    /\ Len(valid_images) + Len(corrupted_images) = idx - 1
    /\ \A p \in 1..(idx - 1) :
         /\ Occurrences(valid_images, image_paths[p])
              = (IF NoException(outcomeLog[p]) THEN 1 ELSE 0)
         /\ Occurrences(corrupted_images, image_paths[p])
              = (IF NoException(outcomeLog[p]) THEN 0 ELSE 1)
    /\ Range(valid_images) \cup Range(corrupted_images) \subseteq Range(Processed)
    /\ (pc \in {"report", "done"} =>
          /\ Len(valid_images) + Len(corrupted_images) = Len(image_paths)
          /\ Len(csvWrites) = 2
          /\ Len(csvWrites[1].rows) + Len(csvWrites[2].rows) = Len(image_paths)
          /\ Len(csvWrites[1].rows) =
               Cardinality({p \in 1..Len(outcomeLog) : NoException(outcomeLog[p])}))

\* niqe.py ended with one scored image and one corrupted image
C4_Witness ==
  /\ script = "niqe" /\ pc = "done"
  /\ Len(valid_images) = 1 /\ Len(corrupted_images) = 1

\* C5: in a classification script a failure on one image gives exactly one
\* row for that image, with answer "Error", and the loop goes on: the rows
\* are, in order, one per image gone through, and at the end one per
\* enumerated image.
C5_OneRowPerImageInOrder ==
  script \in ClassifierScripts /\ pc \in {"loop", "report", "done"} /\ image_paths # << >> =>
    /\ Len(results) = idx - 1
    /\ Len(outcomeLog) = idx - 1
    /\ \A p \in 1..Len(results) :
         /\ results[p][1] \in {image_paths[p], Basename(image_paths[p])}
         /\ (outcomeLog[p].kind # "reply" <=> results[p][2] = "Error")
    /\ (pc \in {"report", "done"} => Len(results) = Len(image_paths))
    /\ (pc = "loop" /\ idx <= Len(image_paths) => ENABLED ClassifyIteration)

\* a classification script ended after a failed image followed by an
\* answered one
C5_Witness ==
  /\ script \in ClassifierScripts /\ pc = "done"
  /\ Len(results) = 2
  /\ results[1][2] = "Error" /\ results[2][2] # "Error"

\* C6: when the model replied, the recorded answer is "Yes" if the reply
\* holds the substring "Yes" (case-sensitive) and "No" otherwise; every
\* answer is one of Yes, No, Error.
C6_AnswerIsYesIffReplyHoldsYes ==
  script \in ClassifierScripts =>
    /\ Len(outcomeLog) = Len(results)
    /\ \A p \in 1..Len(results) :
         /\ results[p][2] \in {"Yes", "No", "Error"}
         /\ outcomeLog[p].kind = "reply" =>
              LET reply == outcomeLog[p].response
                  holdsYes ==
                    \E q \in 1..(Len(reply) - 2) :
                      reply[q] = "Y" /\ reply[q + 1] = "e" /\ reply[q + 2] = "s"
              IN  results[p][2] = (IF holdsYes THEN "Yes" ELSE "No")

\* the reply "No, the image is clear." was recorded as No, and a reply
\* holding "Yes" after other words as Yes
C6_Witness ==
  /\ script \in ClassifierScripts /\ Len(results) = 2
  /\ outcomeLog[1].kind = "reply" /\ outcomeLog[2].kind = "reply"
  /\ Len(outcomeLog[1].response) = 23 /\ results[1][2] = "No"
  /\ outcomeLog[2].response = << "N", "o", "t", " ", "Y", "e", "s" >>
  /\ results[2][2] = "Yes"

\* the scripts that score or classify the images of a folder
FolderScripts == {"niqe", "other_taxa", "qwen_vl_iqa", "qwen200"}

\* the image files (.jpg, .jpeg, .png, any case) the script's input holds
InputImages ==
  IF script = "qwen200"
  THEN UNION {{n \in SubfolderFiles(f) : ImageName(n)} : f \in subfolders}
  ELSE {n \in dirFiles : ImageName(n)}

\* C7: a scoring script whose input folder is missing or holds no image file
\* ends with exit status 1, has handed no image to the model and has
\* written no CSV file.
C7_NoInputExitsOne ==
  script \in FolderScripts /\ (~folderExists \/ InputImages = {}) =>
    /\ (pc = "done" => exitCode = 1)
    /\ modelCalls = 0
    /\ csvWrites = << >>

\* C9: with a non-empty image list, no CSV file is written while images
\* remain, each result file is written once, with the rows of all images,
\* and the script goes on to its closing report and ends with status 0
\* whatever the number of failed images.
C9_CsvOnceAfterAllImages ==
  script \in FolderScripts /\ image_paths # << >> =>
    /\ (csvWrites # << >> => idx > Len(image_paths))
    /\ (pc = "loop" => csvWrites = << >>)
    /\ \A p, q \in 1..Len(csvWrites) : p # q => csvWrites[p].file # csvWrites[q].file
    /\ (pc \in {"report", "done"} =>
          /\ Len(csvWrites) = (IF script = "niqe" THEN 2 ELSE 1)
          /\ SumSeq([p \in 1..Len(csvWrites) |-> Len(csvWrites[p].rows)])
               = Len(image_paths))
    /\ (pc = "done" => exitCode = 0 /\ "finished" \in printed)
    /\ (pc # "done" => ENABLED ScorerNext)

\* a script ended with status 0 though every one of its two images failed
C9_Witness ==
  /\ script \in FolderScripts /\ pc = "done" /\ exitCode = 0
  /\ Len(image_paths) = 2 /\ Len(outcomeLog) = 2
  /\ \A p \in 1..2 : outcomeLog[p].kind \notin {"reply", "scored"}
  /\ csvWrites # << >>

\* C10: every script takes a name for an image iff it ends in .jpg, .jpeg or
\* .png compared case-insensitively: a script that lists a folder goes
\* through exactly the image files of that folder.
C10_SameEligibilityEverywhere ==
  /\ script \in {"niqe", "other_taxa", "qwen_vl_iqa"} /\ folderExists /\ pc # "start" =>
       {Basename(image_paths[p]) : p \in 1..Len(image_paths)}
         = {n \in dirFiles : ImageName(n)}
  /\ script = "sampler" =>
       \A j \in Sampled :
         seedLog[j].files =
           [c \in 1..Len(seedLog[j].files) |->
              SelectSeq(seedLog[j].files[c], ImageName)]

\* the name, inside its folder, of the image a pass of the loop works on
ImageFileName(p) == Basename(image_paths[p])

\* C11: in a classification script the first column of every row, answered
\* or Error, is the file name of the image of that pass of the loop, with
\* no directory part.
C11_FirstColumnIsFileName ==
  script \in ClassifierScripts =>
    \A p \in 1..Len(results) :
      /\ results[p][1] = ImageFileName(p)
      /\ "/" \notin Range(results[p][1])

(***************************************************************************)
(* Properties of the sampler's records.                                    *)
(***************************************************************************)
\* the latest pass of the seeds loop, 0 before the first
LastPass == Len(seedLog)

\* the latest pass got through sampling and the metadata file
LastPassSucceeded == LastPass >= 1 /\ seedLog[LastPass].raised = "none"

\* every copy2 call of category c succeeded in the latest pass
AllCopied(c) == copied[c] = Range(seedLog[LastPass].samples[c])

\* C12: a category with n < samples_per_type files has all its n files
\* taken and a warning printed, and no warning is printed when
\* n >= samples_per_type; the pass raises nothing on that account: it is
\* recorded, and at the end summarised, as success with a copied count of n
\* for that category when no copy failed.
C12_TooFewFilesTakesAllAndWarns ==
  script = "sampler" =>
    /\ \A j \in Sampled : \A c \in 1..Len(seedLog[j].files) :
         LET n   == Len(seedLog[j].files[c])
             key == Keys(flower_types)[c]
         IN  /\ (n < samples_per_type =>
                   /\ Len(seedLog[j].samples[c]) = n
                   /\ Range(seedLog[j].samples[c]) = Range(seedLog[j].files[c])
                   /\ key \in seedLog[j].warned)
             /\ (n >= samples_per_type => key \notin seedLog[j].warned)
    /\ (LastPassSucceeded =>
          LET seed == seedLog[LastPass].seed IN
          /\ seed \in DOMAIN all_stats /\ all_stats[seed].error = "none"
          /\ (pc = "done" => summary[seed].status = "success")
          /\ \A c \in 1..Len(seedLog[LastPass].files) :
               Len(seedLog[LastPass].files[c]) < samples_per_type /\ AllCopied(c) =>
                 /\ all_stats[seed].samples_copied[c] = Len(seedLog[LastPass].files[c])
                 /\ (pc = "done" =>
                       summary[seed].per_flower[c] = Len(seedLog[LastPass].files[c])))

\* the run ended after a pass in which a category with one file, fewer than
\* samples_per_type, was warned about, copied whole and summarised as success
C12_Witness ==
  /\ script = "sampler" /\ pc = "done" /\ LastPassSucceeded
  /\ \E c \in 1..Len(seedLog[LastPass].files) :
       /\ Len(seedLog[LastPass].files[c]) = 1 /\ samples_per_type = 2
       /\ Keys(flower_types)[c] \in seedLog[LastPass].warned
       /\ AllCopied(c)
       /\ summary[seedLog[LastPass].seed].status = "success"
       /\ summary[seedLog[LastPass].seed].per_flower[c] = 1

\* C13: the metadata file of a seed agrees with what its pass did: seed_used
\* is the seed; per category, files_found_per_flower is the number of files
\* assigned and samples_copied_per_flower the number of selected files whose
\* copy succeeded (every selected file but the failed ones), at most
\* min(files found, samples_per_type); total_samples_copied is their sum.
C13_MetadataMatchesThePass ==
  script = "sampler" /\ LastPassSucceeded =>
    LET log  == seedLog[LastPass]
        seed == log.seed
    IN  /\ seed \in DOMAIN metadata
        /\ metadata[seed].seed_used = seed
        /\ DOMAIN metadata[seed].files_found_per_flower = 1..Len(log.files)
        /\ DOMAIN metadata[seed].samples_copied_per_flower = 1..Len(log.files)
        /\ \A c \in 1..Len(log.files) :
             LET found  == metadata[seed].files_found_per_flower[c]
                 done   == metadata[seed].samples_copied_per_flower[c]
                 failed == Range(log.samples[c]) \ copied[c]
             IN  /\ found = Len(log.files[c])
                 /\ copied[c] \subseteq Range(log.samples[c])
                 /\ done = Cardinality(copied[c])
                 /\ done = Len(log.samples[c]) - Cardinality(failed)
                 /\ done <= Min(found, samples_per_type)
        /\ metadata[seed].total_samples_copied
             = SumSeq(metadata[seed].samples_copied_per_flower)
        /\ metadata[seed].total_samples_copied
             = SumSeq([c \in 1..Len(log.files) |-> Cardinality(copied[c])])

\* the copy of the first of two selected files failed, the second was
\* copied all the same, and the metadata counts one copied file
C13_Witness ==
  /\ script = "sampler" /\ LastPassSucceeded
  /\ \E c \in 1..Len(seedLog[LastPass].samples) :
       /\ Len(seedLog[LastPass].samples[c]) = 2
       /\ copied[c] = {seedLog[LastPass].samples[c][2]}
       /\ metadata[seedLog[LastPass].seed].samples_copied_per_flower[c] = 1
       /\ metadata[seedLog[LastPass].seed].total_samples_copied = 1

\* the passes of the seeds loop made for seed sd
PassesOf(sd) == {j \in 1..Len(seedLog) : seedLog[j].seed = sd}

\* the last pass made for seed sd (sd has at least one pass)
LastPassOf(sd) == CHOOSE j \in PassesOf(sd) : \A q \in PassesOf(sd) : q <= j

\* the message str(e) of the exception a pass raised
MessageOf(raised) ==
  IF raised = "source" THEN "Source folder not found" ELSE "metadata not written"

\* the entry of all_stats for seed sd is the one its pass j left: an error
\* with that pass's message, or that pass's counts
StatsAreOfPass(sd, j) ==
  IF seedLog[j].raised = "none"
  THEN /\ all_stats[sd].error = "none"
       /\ all_stats[sd].files_per_flower
            = [c \in 1..Len(seedLog[j].files) |-> Len(seedLog[j].files[c])]
       /\ DOMAIN all_stats[sd].samples_copied = 1..Len(seedLog[j].samples)
       /\ \A c \in 1..Len(seedLog[j].samples) :
            all_stats[sd].samples_copied[c] <= Len(seedLog[j].samples[c])
  ELSE all_stats[sd].error = MessageOf(seedLog[j].raised)

\* C14 as stated: at the end the summary has one entry per distinct seed,
\* and the entry of a seed says success iff no pass made for that seed
\* raised an exception.
C14_SuccessIffSeedNeverRaised ==
  script = "sampler" /\ pc = "done" =>
    /\ DOMAIN summary = Range(seeds)
    /\ \A sd \in Range(seeds) :
         summary[sd].status = "success"
           <=> \A j \in PassesOf(sd) : seedLog[j].raised = "none"

\* C14, amended: at the end the summary has one entry per distinct seed,
\* made from the last pass for that seed alone: success, with that pass's
\* counts and total_copied their sum, iff that pass raised nothing, else
\* failed with that pass's error message; the passes for other seeds, raising
\* or not, leave it as it is.
C14_SummaryShowsLastPassOfEachSeed ==
  script = "sampler" =>
    /\ \A sd \in DOMAIN all_stats :
         PassesOf(sd) # {} /\ StatsAreOfPass(sd, LastPassOf(sd))
    /\ (pc = "done" =>
          /\ DOMAIN summary = Range(seeds)
          /\ DOMAIN all_stats = Range(seeds)
          /\ \A sd \in Range(seeds) :
               LET j == LastPassOf(sd) IN
               IF seedLog[j].raised = "none"
               THEN /\ summary[sd].status = "success"
                    /\ summary[sd].per_flower = all_stats[sd].samples_copied
                    /\ summary[sd].total_copied = SumSeq(summary[sd].per_flower)
               ELSE /\ summary[sd].status = "failed"
                    /\ summary[sd].error = MessageOf(seedLog[j].raised))

\* two different seeds were processed, the pass of the second raised, and
\* the summary shows the first as success, with one copied file, and the
\* second as failed
C14_Witness ==
  /\ script = "sampler" /\ pc = "done" /\ Len(seedLog) = 2
  /\ seedLog[1].seed # seedLog[2].seed
  /\ seedLog[1].raised = "none" /\ seedLog[2].raised = "metadata"
  /\ summary[seedLog[1].seed].status = "success"
  /\ summary[seedLog[1].seed].total_copied = 1
  /\ summary[seedLog[2].seed].status = "failed"

\* C15: within one process the set of files selected for a category is a
\* function of the base seed, the category name, samples_per_type and the
\* set of the category's files: two passes with the same seed select the
\* same set for a category with the same files, whatever the order of the
\* listing and whatever was sampled before; and the set is the one drawn for
\* that category alone, from a generator in any state, whatever the place of
\* the category in flower_types.
C15_SelectionDependsOnSeedNameAndFilesOnly ==
  script = "sampler" =>
    /\ \A j1, j2 \in Sampled : \A c \in 1..Len(seedLog[j1].files) :
         /\ seedLog[j1].seed = seedLog[j2].seed
         /\ Range(seedLog[j1].files[c]) = Range(seedLog[j2].files[c])
         => Range(seedLog[j1].samples[c]) = Range(seedLog[j2].samples[c])
    /\ \A j \in Sampled : \A c \in 1..Len(seedLog[j].files) :
         Range(seedLog[j].samples[c])
           = Range(SampleFlower(Sorted(seedLog[j].files[c]), samples_per_type,
                                seedLog[j].seed, hashSalt,
                                Keys(flower_types)[c], 0).sample)

\* two passes with the same seed met the two files of a category in
\* opposite orders and selected the same one of them
C15_Witness ==
  /\ script = "sampler" /\ Len(seedLog) = 2 /\ samples_per_type = 1
  /\ seedLog[1].seed = seedLog[2].seed
  /\ \E c \in 1..Len(seedLog[1].files) :
       /\ Len(seedLog[1].files[c]) = 2
       /\ seedLog[2].files[c] = << seedLog[1].files[c][2], seedLog[1].files[c][1] >>
       /\ Len(seedLog[1].samples[c]) = 1
       /\ seedLog[1].samples[c] = seedLog[2].samples[c]

=============================================================================
